---- MODULE Spec2Model ----
(***************************************************************************)
(* Model of the MRD streaming connection (connection.py, constants.py).    *)
(*                                                                         *)
(* One Connection object shared by the threads of Threads, and the peer at *)
(* the other end of the socket.  The socket's receive side is `stream`    *)
(* (tokens the peer has written and the connection has not read yet), its *)
(* send side is `out`.  A frame is an identifier token followed by one     *)
(* payload token; MRD_MESSAGE_CLOSE has no payload, and the frame of the   *)
(* unregistered identifier is sent without one.                            *)
(***************************************************************************)
EXTENDS Integers, Sequences, FiniteSets, TLC

\* ---------------------------------------------------------------- bounds
MaxFrames   == 2    \* Spec: frames the peer sends unasked
MaxCalls    == 2    \* public calls each thread makes
MaxAllCalls == 3    \* public calls the threads make together
MaxYield    == 3    \* items one iteration is followed for
SeqFrames   == 3    \* SpecSeq: frames on the stream
PeekLen     == 12   \* SpecPeek: frames on the stream

Threads  == {1, 2}
NoThread == 0

\* ------------------------------------------------------ constants.py
MRD_MESSAGE_CONFIG_FILE                    == 1
MRD_MESSAGE_CONFIG_TEXT                    == 2
MRD_MESSAGE_CLOSE                          == 4
MRD_MESSAGE_TEXT                           == 5
MRD_MESSAGE_ACQUISITION                    == 1001   \* deprecated: no handler
MRD_MESSAGE_ISMRMRD_ACQUISITION            == 1008
MRD_MESSAGE_ISMRMRD_STORE_DATA_QUERY       == 1030
MRD_MESSAGE_ISMRMRD_STORE_DATA_RESPONSE    == 1031
MRD_MESSAGE_ISMRMRD_RETRIEVE_DATA_QUERY    == 1032
MRD_MESSAGE_ISMRMRD_RETRIEVE_DATA_RESPONSE == 1033

\* The identifiers of Connection.handlers that this model decodes.
handlers ==
  { MRD_MESSAGE_CONFIG_FILE, MRD_MESSAGE_CONFIG_TEXT, MRD_MESSAGE_CLOSE,
    MRD_MESSAGE_TEXT, MRD_MESSAGE_ISMRMRD_ACQUISITION,
    MRD_MESSAGE_ISMRMRD_STORE_DATA_RESPONSE,
    MRD_MESSAGE_ISMRMRD_RETRIEVE_DATA_RESPONSE }

\* get_data_response reading one frame more
PeekOneMore == 10 + 1

\* get_data_response: maxPeekMessages = 10
maxPeekMessages == 10

\* ------------------------------------------------------------- values
\* uids chosen by a caller of get_data_response and by the peer for the
\* responses it sends unasked; store_data/retrieve_data draw fresh ones.
\* The peer answers a query with a status of Statuses.
CallerUids == {101, 102}
PeerUids   == {101}
FirstUid   == 1
Statuses   == {0}

\* A decoded message, as the handlers return it.  cls is the Python class:
\* read_config_text and read_text return str, read_close returns None.
\* n (the frame's arrival number) and by (who queued it) are bookkeeping.
Item(cls, text, uid, status, n) ==
  [cls |-> cls, text |-> text, uid |-> uid, status |-> status, n |-> n, by |-> ""]

None == Item("NoneType", "", 0, 0, 0)

IsNone(item) == item.cls = "NoneType"

\* A frame as the peer writes it.
Frame(id, text, uid, status, n) ==
  [id |-> id, text |-> text, uid |-> uid, status |-> status, n |-> n]

\* The tokens of a frame on the socket: identifier, then payload.
Tokens(f) ==
  IF f.id \in {MRD_MESSAGE_CLOSE, MRD_MESSAGE_ACQUISITION}
  THEN << [part |-> "id", f |-> f] >>
  ELSE << [part |-> "id", f |-> f], [part |-> "payload", f |-> f] >>

\* What the peer may send unasked (n is filled in when it is sent).
PeerFrames ==
  { Frame(MRD_MESSAGE_CONFIG_TEXT, "recon_mode=fast", 0, 0, 0),
    Frame(MRD_MESSAGE_TEXT, "hello", 0, 0, 0),
    Frame(MRD_MESSAGE_CLOSE, "", 0, 0, 0),
    Frame(MRD_MESSAGE_ACQUISITION, "", 0, 0, 0) }
  \cup { Frame(MRD_MESSAGE_ISMRMRD_STORE_DATA_RESPONSE, "", u, 1, 0) : u \in PeerUids }
  \cup { Frame(MRD_MESSAGE_ISMRMRD_RETRIEVE_DATA_RESPONSE, "k1", u, 0, 0) : u \in PeerUids }


\* What a caller may ask get_data_response for.
GetTargets ==
  { <<"MrdStoreDataResponse", 101>>, <<"MrdStoreDataResponse", 102>>,
    <<"MrdRetrieveDataResponse", 101>> }

\* What a caller asks get_data_response for while two threads use the
\* connection.
ConcTargets == { <<"MrdStoreDataResponse", 101>> }

\* What the peer sends unasked while two threads use the connection.
ConcFrames ==
  { Frame(MRD_MESSAGE_TEXT, "hello", 0, 0, 0),
    Frame(MRD_MESSAGE_ISMRMRD_STORE_DATA_RESPONSE, "", 101, 1, 0) }

ResponseTypes == {"MrdStoreDataResponse", "MrdRetrieveDataResponse"}

\* Results of a call: a returned value, a raised exception, the end of an
\* iteration; "none" before the first call returns.
Value(item)  == [kind |-> "value", item |-> item, exc |-> ""]
Raise(exc)   == [kind |-> "raise", item |-> None, exc |-> exc]
EndOfIter    == [kind |-> "end",   item |-> None, exc |-> ""]
NoResult     == [kind |-> "none",  item |-> None, exc |-> ""]

\* -------------------------------------------------------------- state
VARIABLES
  stream,        \* socket, inbound: tokens written by the peer, unread
  out,           \* socket, outbound: tokens written by the connection
  peer,          \* "open" | "closed" | "reset"
  wire,          \* the frames the peer has written so far, in order
  unsol,         \* of these, the ones it sent unasked
  is_exhausted,  \* Connection.is_exhausted
  queue,         \* Connection.queue
  lock,          \* Connection.lock: the holding thread, or NoThread
  nextUid,       \* the next uuid.uuid4() value
  active,        \* the threads that make calls
  savedata,      \* Connection.savedata
  dsetFails,     \* the dataset file (Connection.dset) cannot be written
  dset,          \* Connection.dset: "None" | "open"
  handles,       \* dataset files opened by create_save_file and not closed
  pc,            \* per thread: the place in the code
  op,            \* per thread: the public call in progress / last made
  idx,           \* per thread: i of "for i,item in enumerate(self.queue)"
  cnt,           \* per thread: i of "for i in range(maxPeekMessages)"
  rtype,         \* per thread: responseType
  ruid,          \* per thread: uid
  cur,           \* per thread: id, the identifier just read
  ret,           \* per thread: the result of the last call
  calls,         \* per thread: calls made
  yielded,       \* per thread: what the iteration has yielded
  q0,            \* per thread: the queue when the current call began
  nread,         \* per thread: identifier reads of the current call
  exh0,          \* per thread: is_exhausted when the current call began
  closedAt,      \* arrival number of the first decoded Close frame, or 0
  sentMsgs,      \* byte level: the messages handed to the send methods
  written,       \* byte level: the bytes socket.send has written
  inbound,       \* byte level: the bytes the reading socket will deliver
  results,       \* byte level: what the reader decoded, frame by frame
  phase,         \* byte level: "send" | "recv"
  transport      \* byte level: what socket.send accepts, "full" | "partial"

sockVars == <<stream, out, peer, wire, unsol>>
connVars == <<is_exhausted, queue, lock, nextUid>>
callVars == <<op, calls, nread>>
locals   == <<idx, cnt, cur, rtype, ruid, q0, exh0>>
byteVars == <<sentMsgs, written, inbound, results, phase, transport>>
envVars  == <<active, savedata, dsetFails, dset, handles, byteVars>>
vars == <<sockVars, connVars, callVars, locals, pc, ret, yielded, closedAt, envVars>>

Set(f, t, v) == [f EXCEPT ![t] = v]

\* no identifier read yet
NoCur == [id |-> 0, n |-> 0]

\* ------------------------------------------------------ pure helpers
\* isinstance(item, (MrdStoreDataResponse, MrdRetrieveDataResponse))
IsDataResponse(item) == item.cls \in ResponseTypes

\* the uid of the queued response is not compared
IsMatchAnyUid(item, responseType, uid) == item.cls = responseType

\* isinstance(item, responseType) and item.uid == uid
IsMatch(item, responseType, uid) == item.cls = responseType /\ item.uid = uid

\* pop(0) in place of pop(i)
RemoveFirst(q, i) == Tail(q)

\* list.pop(i) leaves the other entries in place (i counts from 1 here)
RemoveAt(q, i) == [k \in 1..(Len(q) - 1) |-> IF k < i THEN q[k] ELSE q[k + 1]]

\* The value a handler builds from the payload of frame f read under id.
Decode(id, f) ==
  CASE id = MRD_MESSAGE_ISMRMRD_STORE_DATA_RESPONSE ->
         Item("MrdStoreDataResponse", "", f.uid, f.status, f.n)
    [] id = MRD_MESSAGE_ISMRMRD_RETRIEVE_DATA_RESPONSE ->
         Item("MrdRetrieveDataResponse", f.text, f.uid, f.status, f.n)
    [] id = MRD_MESSAGE_ISMRMRD_ACQUISITION ->
         Item("Acquisition", "", 0, 0, f.n)
    [] OTHER -> Item("str", f.text, 0, 0, f.n)

\* socket.recv blocks while the peer is connected and has sent nothing.
CanRecv == stream # <<>> \/ peer # "open"

\* if self.savedata is True: ... self.dset ...: the handlers of config
\* text and close write to the dataset file after reading the payload and
\* before they return (read_close before it sets is_exhausted); an error
\* of the file is raised from there.
SaveFails == savedata /\ dsetFails

\* savedata, dset and the number of open dataset files, as one value.
SaveState == [savedata |-> savedata, dset |-> dset, handles |-> handles]

\* create_save_file: if self.savedata is True: self.dset = ismrmrd.Dataset(...)
create_save_file(st) ==
  IF st.savedata THEN [st EXCEPT !.dset = "open", !.handles = @ + 1] ELSE st

\* a handler that opens a dataset file whether or not one is open
OpenAlways(st) == create_save_file(st)

\* if self.dset is None: self.create_save_file()
OpenIfNone(st) == IF st.dset = "None" THEN create_save_file(st) ELSE st

\* self.dset.close(); self.dset = None
CloseDset(st) == [st EXCEPT !.dset = "None", !.handles = @ - 1]

\* savedata, dset and the open dataset files after the handler of
\* identifier c.id has run.  read_config_file enables saving on the name
\* "savedataonly"; read_config_file, read_config_text and read_acquisition
\* open the file when none is open and write to it; read_close opens it
\* when none is open and closes it.  A handler that reads no payload
\* (short read, unknown identifier) changes nothing, and a failing file
\* fails in the write or the close, after it was opened.
AfterHandler(c) ==
  IF c.id \notin handlers \/ (c.id # MRD_MESSAGE_CLOSE /\ stream = <<>>)
  THEN SaveState
  ELSE IF c.id = MRD_MESSAGE_CONFIG_FILE
  THEN LET s1 == IF Head(stream).f.text = "savedataonly" /\ ~savedata
                 THEN create_save_file([SaveState EXCEPT !.savedata = TRUE])
                 ELSE SaveState
       IN  IF s1.savedata THEN OpenIfNone(s1) ELSE s1
  ELSE IF c.id \in {MRD_MESSAGE_CONFIG_TEXT, MRD_MESSAGE_ISMRMRD_ACQUISITION}
  THEN IF savedata THEN OpenIfNone(SaveState) ELSE SaveState
  ELSE IF c.id = MRD_MESSAGE_CLOSE
  THEN IF ~savedata THEN SaveState
       ELSE IF dsetFails THEN OpenIfNone(SaveState)
       ELSE CloseDset(OpenIfNone(SaveState))
  ELSE SaveState

\* As HandlerReturns, setting is_exhausted as read_close does.
HandlerReturnsExhausted(c) ==
  [exc |-> "", item |-> Decode(c.id, Head(stream).f), used |-> 1, close |-> TRUE]

\* A handler other than read_close reads its payload and returns the item.
HandlerReturns(c) ==
  [exc |-> "", item |-> Decode(c.id, Head(stream).f), used |-> 1, close |-> FALSE]


\* handler(): what running the handler of identifier c.id does.
\*   exc   the exception it raises, "" if none
\*   item  the value it returns
\*   used  payload tokens it consumes
\*   close TRUE for read_close, which sets is_exhausted
HandlerOutcome(c) ==
  IF c.id \notin handlers
  THEN [exc |-> "StopIteration", item |-> None, used |-> 0, close |-> FALSE]
  ELSE IF c.id = MRD_MESSAGE_CLOSE
  THEN IF SaveFails
       THEN [exc |-> "OSError", item |-> None, used |-> 0, close |-> FALSE]
       ELSE [exc |-> "", item |-> [None EXCEPT !.n = c.n], used |-> 0, close |-> TRUE]
  ELSE IF stream = <<>>
  THEN [exc |-> IF peer = "reset" THEN "ConnectionResetError" ELSE "struct.error",
        item |-> None, used |-> 0, close |-> FALSE]
  ELSE IF /\ c.id \in {MRD_MESSAGE_CONFIG_FILE, MRD_MESSAGE_CONFIG_TEXT,
                       MRD_MESSAGE_ISMRMRD_ACQUISITION}
          /\ AfterHandler(c).savedata /\ dsetFails
  THEN [exc |-> "OSError", item |-> None, used |-> 1, close |-> FALSE]
  ELSE HandlerReturns(c)

\* The handler can run: read_close and the unknown-identifier lambda read
\* nothing, every other handler blocks in recv for its payload.
HandlerReady(c) ==
  c.id \notin handlers \/ c.id = MRD_MESSAGE_CLOSE \/ CanRecv

\* MrdMessageIdentifier.unpack of the bytes at the head of the stream: the
\* frame's identifier, or whatever payload bytes happen to be there.
IdentifiersAt(tok) ==
  IF tok.part = "id" THEN {tok.f.id} ELSE handlers \cup {MRD_MESSAGE_ACQUISITION}

\* --------------------------------------------------------------- Init
\* The Connection after __init__, and threads that have called nothing.
InitConnection ==
  /\ is_exhausted = FALSE
  /\ queue = <<>>
  /\ lock = NoThread
  /\ nextUid = FirstUid
  /\ pc      = [t \in Threads |-> "idle"]
  /\ op      = [t \in Threads |-> "none"]
  /\ idx     = [t \in Threads |-> 1]
  /\ cnt     = [t \in Threads |-> 0]
  /\ rtype   = [t \in Threads |-> ""]
  /\ ruid    = [t \in Threads |-> 0]
  /\ cur     = [t \in Threads |-> NoCur]
  /\ ret     = [t \in Threads |-> NoResult]
  /\ calls   = [t \in Threads |-> 0]
  /\ yielded = [t \in Threads |-> <<>>]
  /\ q0      = [t \in Threads |-> <<>>]
  /\ nread   = [t \in Threads |-> 0]
  /\ exh0    = [t \in Threads |-> FALSE]
  /\ closedAt = 0
  /\ dset = "None"
  /\ handles = 0
  /\ sentMsgs = <<>>
  /\ written = <<>>
  /\ inbound = <<>>
  /\ results = <<>>
  /\ phase = "send"

\* The sequences of at most n frames of F.
RECURSIVE FrameSeqs(_, _)
FrameSeqs(F, n) ==
  IF n = 0 THEN {<<>>}
  ELSE LET S == FrameSeqs(F, n - 1) IN
       S \cup {Append(s, f) : s \in {x \in S : Len(x) = n - 1}, f \in F}

\* The tokens of the frames of fs, numbered in the order of arrival.
RECURSIVE TokensOf(_, _)
TokensOf(fs, n) ==
  IF fs = <<>> THEN <<>>
  ELSE Tokens([Head(fs) EXCEPT !.n = n]) \o TokensOf(Tail(fs), n + 1)

\* The callers T and a peer that has already sent the frames fs and has
\* closed its end (p = "closed") or not.  recv blocks until the bytes are
\* there, so a frame that arrives while a call is under way is read as one
\* that arrived before it: the frames the peer sends unasked are put on
\* the stream here.
InitWith(T, fs, p) ==
  /\ InitConnection
  /\ active = T
  /\ savedata = FALSE /\ dsetFails = FALSE
  /\ transport = "full"
  /\ wire = [i \in 1..Len(fs) |-> [fs[i] EXCEPT !.n = i]]
  /\ stream = TokensOf(fs, 1)
  /\ unsol = Len(fs)
  /\ out = <<>>
  /\ peer = p

\* Two threads make calls.
Init == \E fs \in FrameSeqs(ConcFrames, MaxFrames) : InitWith(Threads, fs, "open")

\* One thread makes calls, one after the other.
InitSeq == \E fs \in FrameSeqs(PeerFrames, SeqFrames) :
             \E p \in {"open", "closed"} : InitWith({1}, fs, p)

\* One thread makes calls on a connection that saves what it receives.
InitSave ==
  \E fs \in FrameSeqs(PeerFrames, SeqFrames) : \E p \in {"open", "closed"} :
    \E f \in BOOLEAN :
      /\ InitConnection
      /\ active = {1}
      /\ savedata = TRUE /\ dsetFails = f
      /\ transport = "full"
      /\ wire = [i \in 1..Len(fs) |-> [fs[i] EXCEPT !.n = i]]
      /\ stream = TokensOf(fs, 1)
      /\ unsol = Len(fs)
      /\ out = <<>>
      /\ peer = p

\* What the peer sends to a connection that may save what it receives.
SaveFrames ==
  { Frame(MRD_MESSAGE_CONFIG_FILE, "savedataonly", 0, 0, 0),
    Frame(MRD_MESSAGE_CONFIG_TEXT, "recon_mode=fast", 0, 0, 0),
    Frame(MRD_MESSAGE_ISMRMRD_ACQUISITION, "", 0, 0, 0),
    Frame(MRD_MESSAGE_TEXT, "hello", 0, 0, 0),
    Frame(MRD_MESSAGE_CLOSE, "", 0, 0, 0) }

\* One thread receives on a connection constructed with savedata True or
\* False.
InitDset ==
  \E fs \in FrameSeqs(SaveFrames, SeqFrames) : \E p \in {"open", "closed"} :
    \E sd \in BOOLEAN : \E f \in BOOLEAN :
      /\ InitConnection
      /\ active = {1}
      /\ savedata = sd /\ dsetFails = f
      /\ transport = "full"
      /\ wire = [i \in 1..Len(fs) |-> [fs[i] EXCEPT !.n = i]]
      /\ stream = TokensOf(fs, 1)
      /\ unsol = Len(fs)
      /\ out = <<>>
      /\ peer = p

\* PeekLen frames, all alike but one.
InitPeek == \E a \in PeerFrames : \E b \in PeerFrames : \E k \in 1..PeekLen :
              \E p \in {"open", "closed"} :
                InitWith({1}, [i \in 1..PeekLen |-> IF i = k THEN a ELSE b], p)

\* ------------------------------------------------- returning to a caller
\* The locals of a call end with it.
LocalsReset(t) ==
  /\ idx' = Set(idx, t, 1)
  /\ cnt' = Set(cnt, t, 0)
  /\ cur' = Set(cur, t, NoCur)
  /\ rtype' = Set(rtype, t, "")
  /\ ruid' = Set(ruid, t, 0)
  /\ q0' = Set(q0, t, <<>>)
  /\ exh0' = Set(exh0, t, FALSE)

\* next() hands r to its caller: to __iter__, which yields a returned value
\* and is torn down by an exception, or to the thread that called next().
ReturnFromNext(t, r) ==
  /\ ret' = Set(ret, t, r)
  /\ LocalsReset(t)
  /\ IF op[t] = "iter" /\ r.kind = "value"
     THEN /\ yielded' = Set(yielded, t, Append(yielded[t], r.item))
          /\ pc' = Set(pc, t, "it_check")
     ELSE /\ yielded' = Set(yielded, t, <<>>)
          /\ pc' = Set(pc, t, "idle")

\* store_data returns res.status, retrieve_data returns res.
StoreResult(r) ==
  IF r.kind # "value" THEN r
  ELSE IF IsNone(r.item) THEN Raise("AttributeError")
  ELSE Value([r.item EXCEPT !.cls = "int"])

\* get_data_response() hands r to its caller.
ReturnFromGet(t, r) ==
  /\ ret' = Set(ret, t, IF op[t] = "store" THEN StoreResult(r) ELSE r)
  /\ LocalsReset(t)
  /\ pc' = Set(pc, t, "idle")
  /\ UNCHANGED yielded

\* ------------------------------------------------------ starting a call
Begin(t, o, p, responseType, uid) ==
  /\ t \in active
  /\ pc[t] = "idle"
  /\ calls[t] < MaxCalls
  /\ calls[1] + calls[2] < MaxAllCalls
  /\ pc' = Set(pc, t, p)
  /\ op' = Set(op, t, o)
  /\ calls' = Set(calls, t, calls[t] + 1)
  /\ nread' = Set(nread, t, 0)
  /\ ret' = Set(ret, t, NoResult)
  /\ rtype' = Set(rtype, t, responseType)
  /\ ruid' = Set(ruid, t, uid)
  /\ q0' = Set(q0, t, queue)
  /\ exh0' = Set(exh0, t, is_exhausted)
  /\ UNCHANGED <<stream, out, peer, wire, unsol, is_exhausted, queue, lock,
                 idx, cnt, cur, yielded, closedAt, envVars>>

CallNext(t) ==
  /\ Begin(t, "next", "n_scan", "", 0)
  /\ UNCHANGED nextUid

CallIter(t) ==
  /\ Begin(t, "iter", "it_check", "", 0)
  /\ UNCHANGED nextUid

CallGetDataResponse(t, responseType, uid) ==
  /\ Begin(t, "get", "g_scan", responseType, uid)
  /\ UNCHANGED nextUid

\* store_data: MrdStoreDataQuery(name, data, uuid.uuid4()), then the send
CallStoreData(t) ==
  /\ Begin(t, "store", "s_lock", "MrdStoreDataResponse", nextUid)
  /\ nextUid' = nextUid + 1

\* retrieve_data: MrdRetrieveDataQuery(name, uuid.uuid4()), then the send
CallRetrieveData(t) ==
  /\ Begin(t, "retrieve", "s_lock", "MrdRetrieveDataResponse", nextUid)
  /\ nextUid' = nextUid + 1

\* ------------------------------------------------------------- next()
\* for i,item in enumerate(self.queue): if not isinstance(item, ...)
NextScan(t) ==
  /\ pc[t] = "n_scan"
  /\ IF idx[t] > Len(queue)
     THEN /\ pc' = Set(pc, t, "n_lock")
          /\ UNCHANGED idx
     ELSE IF ~IsDataResponse(queue[idx[t]])
     THEN /\ pc' = Set(pc, t, "n_pop")
          /\ UNCHANGED idx
     ELSE /\ idx' = Set(idx, t, idx[t] + 1)
          /\ UNCHANGED pc
  /\ UNCHANGED <<sockVars, connVars, callVars, ret, yielded, closedAt, envVars,
                 cnt, cur, rtype, ruid, q0, exh0>>

\* return self.queue.pop(i)
NextPop(t) ==
  /\ pc[t] = "n_pop"
  /\ IF idx[t] <= Len(queue)
     THEN /\ queue' = RemoveAt(queue, idx[t])
          /\ ReturnFromNext(t, Value(queue[idx[t]]))
     ELSE /\ UNCHANGED queue
          /\ ReturnFromNext(t, Raise("IndexError"))
  /\ UNCHANGED <<sockVars, is_exhausted, lock, nextUid, callVars, closedAt, envVars>>

\* next() reading without waiting for the lock
NextLockNotHeld(t) ==
  /\ pc[t] = "n_lock"
  /\ lock' = t
  /\ pc' = Set(pc, t, "n_read")
  /\ UNCHANGED <<sockVars, is_exhausted, queue, nextUid, callVars, locals,
                 ret, yielded, closedAt, envVars>>

\* with self.lock:
NextLock(t) ==
  /\ pc[t] = "n_lock"
  /\ lock = NoThread
  /\ lock' = t
  /\ pc' = Set(pc, t, "n_read")
  /\ UNCHANGED <<sockVars, is_exhausted, queue, nextUid, callVars, locals,
                 ret, yielded, closedAt, envVars>>

\* id = self.read_mrd_message_identifier(); if id is None: return None
NextRead(t) ==
  /\ pc[t] = "n_read"
  /\ CanRecv
  /\ nread' = Set(nread, t, nread[t] + 1)
  /\ IF stream = <<>>
     THEN /\ is_exhausted' = TRUE
          /\ lock' = NoThread
          /\ ReturnFromNext(t, Value(None))
          /\ UNCHANGED stream
     ELSE /\ \E id \in IdentifiersAt(Head(stream)) :
               cur' = Set(cur, t, [id |-> id, n |-> Head(stream).f.n])
          /\ stream' = Tail(stream)
          /\ pc' = Set(pc, t, "n_handle")
          /\ UNCHANGED <<is_exhausted, lock, ret, yielded,
                         idx, cnt, rtype, ruid, q0, exh0>>
  /\ UNCHANGED <<out, peer, wire, unsol, queue, nextUid, op, calls,
                 closedAt, envVars>>

\* next() with self.lock.acquire() and self.lock.release() around the
\* loop in place of the with statement: an exception of the handler leaves
\* the method past the release.
NextHandleNoRelease(t) ==
  /\ pc[t] = "n_handle"
  /\ HandlerReady(cur[t])
  /\ LET h == HandlerOutcome(cur[t]) IN
     /\ stream' = SubSeq(stream, h.used + 1, Len(stream))
     /\ is_exhausted' = (is_exhausted \/ h.close)
     /\ closedAt' = IF h.close /\ closedAt = 0 THEN cur[t].n ELSE closedAt
     /\ IF h.exc # ""
        THEN /\ UNCHANGED lock
             /\ ReturnFromNext(t, Raise(h.exc))
             /\ UNCHANGED queue
        ELSE IF IsDataResponse(h.item)
        THEN /\ queue' = Append(queue, [h.item EXCEPT !.by = "next"])
             /\ pc' = Set(pc, t, "n_read")
             /\ cur' = Set(cur, t, NoCur)
             /\ UNCHANGED <<lock, ret, yielded, idx, cnt, rtype, ruid, q0, exh0>>
        ELSE /\ lock' = NoThread
             /\ ReturnFromNext(t, Value(h.item))
             /\ UNCHANGED queue
  /\ savedata' = AfterHandler(cur[t]).savedata
  /\ dset' = AfterHandler(cur[t]).dset
  /\ handles' = AfterHandler(cur[t]).handles
  /\ UNCHANGED <<out, peer, wire, unsol, nextUid, callVars, active, dsetFails,
                 byteVars>>

\* item = handler(); a data response is queued, anything else returned
NextHandle(t) ==
  /\ pc[t] = "n_handle"
  /\ HandlerReady(cur[t])
  /\ LET h == HandlerOutcome(cur[t]) IN
     /\ stream' = SubSeq(stream, h.used + 1, Len(stream))
     /\ is_exhausted' = (is_exhausted \/ h.close)
     /\ closedAt' = IF h.close /\ closedAt = 0 THEN cur[t].n ELSE closedAt
     /\ IF h.exc # ""
        THEN /\ lock' = NoThread
             /\ ReturnFromNext(t, Raise(h.exc))
             /\ UNCHANGED queue
        ELSE IF IsDataResponse(h.item)
        THEN /\ queue' = Append(queue, [h.item EXCEPT !.by = "next"])
             /\ pc' = Set(pc, t, "n_read")
             /\ cur' = Set(cur, t, NoCur)
             /\ UNCHANGED <<lock, ret, yielded, idx, cnt, rtype, ruid, q0, exh0>>
        ELSE /\ lock' = NoThread
             /\ ReturnFromNext(t, Value(h.item))
             /\ UNCHANGED queue
  /\ savedata' = AfterHandler(cur[t]).savedata
  /\ dset' = AfterHandler(cur[t]).dset
  /\ handles' = AfterHandler(cur[t]).handles
  /\ UNCHANGED <<out, peer, wire, unsol, nextUid, callVars, active, dsetFails,
                 byteVars>>

\* --------------------------------------------------------- __iter__
\* while not (self.is_exhausted and (len(self.queue) == 0)): yield self.next()
IterCheck(t) ==
  /\ pc[t] = "it_check"
  /\ IF is_exhausted /\ Len(queue) = 0
     THEN /\ pc' = Set(pc, t, "idle")
          /\ ret' = Set(ret, t, EndOfIter)
          /\ yielded' = Set(yielded, t, <<>>)
          /\ UNCHANGED <<q0, exh0, nread>>
     ELSE /\ Len(yielded[t]) < MaxYield
          /\ pc' = Set(pc, t, "n_scan")
          /\ q0' = Set(q0, t, queue)
          /\ exh0' = Set(exh0, t, is_exhausted)
          /\ nread' = Set(nread, t, 0)
          /\ UNCHANGED <<ret, yielded>>
  /\ UNCHANGED <<sockVars, connVars, op, calls, closedAt, envVars,
                 idx, cnt, cur, rtype, ruid>>

\* ------------------------------------------------ get_data_response()
\* for i,item in enumerate(self.queue): if isinstance(...): if item.uid == uid
GetScan(t) ==
  /\ pc[t] = "g_scan"
  /\ IF idx[t] > Len(queue)
     THEN /\ pc' = Set(pc, t, "g_lock")
          /\ UNCHANGED idx
     ELSE IF IsMatch(queue[idx[t]], rtype[t], ruid[t])
     THEN /\ pc' = Set(pc, t, "g_pop")
          /\ UNCHANGED idx
     ELSE /\ idx' = Set(idx, t, idx[t] + 1)
          /\ UNCHANGED pc
  /\ UNCHANGED <<sockVars, connVars, callVars, ret, yielded, closedAt, envVars,
                 cnt, cur, rtype, ruid, q0, exh0>>

\* return self.queue.pop(i)
GetPop(t) ==
  /\ pc[t] = "g_pop"
  /\ IF idx[t] <= Len(queue)
     THEN /\ queue' = RemoveAt(queue, idx[t])
          /\ ReturnFromGet(t, Value(queue[idx[t]]))
     ELSE /\ UNCHANGED queue
          /\ ReturnFromGet(t, Raise("IndexError"))
  /\ UNCHANGED <<sockVars, is_exhausted, lock, nextUid, callVars, closedAt, envVars>>

\* with self.lock:
GetLock(t) ==
  /\ pc[t] = "g_lock"
  /\ lock = NoThread
  /\ lock' = t
  /\ pc' = Set(pc, t, "g_read")
  /\ UNCHANGED <<sockVars, is_exhausted, queue, nextUid, callVars, locals,
                 ret, yielded, closedAt, envVars>>

\* for i in range(maxPeekMessages): id = self.read_mrd_message_identifier()
\* ...; after the loop: return None
GetRead(t) ==
  /\ pc[t] = "g_read"
  /\ IF cnt[t] >= maxPeekMessages
     THEN /\ lock' = NoThread
          /\ ReturnFromGet(t, Value(None))
          /\ UNCHANGED <<stream, is_exhausted, nread>>
     ELSE /\ CanRecv
          /\ nread' = Set(nread, t, nread[t] + 1)
          /\ IF stream = <<>>
             THEN /\ is_exhausted' = TRUE
                  /\ lock' = NoThread
                  /\ ReturnFromGet(t, Value(None))
                  /\ UNCHANGED stream
             ELSE /\ \E id \in IdentifiersAt(Head(stream)) :
                       cur' = Set(cur, t, [id |-> id, n |-> Head(stream).f.n])
                  /\ stream' = Tail(stream)
                  /\ pc' = Set(pc, t, "g_handle")
                  /\ UNCHANGED <<is_exhausted, lock, ret, yielded,
                                 idx, cnt, rtype, ruid, q0, exh0>>
  /\ UNCHANGED <<out, peer, wire, unsol, queue, nextUid, op, calls,
                 closedAt, envVars>>

\* item = handler(); the match is returned, anything else is queued
GetHandle(t) ==
  /\ pc[t] = "g_handle"
  /\ HandlerReady(cur[t])
  /\ LET h == HandlerOutcome(cur[t]) IN
     /\ stream' = SubSeq(stream, h.used + 1, Len(stream))
     /\ is_exhausted' = (is_exhausted \/ h.close)
     /\ closedAt' = IF h.close /\ closedAt = 0 THEN cur[t].n ELSE closedAt
     /\ IF h.exc # ""
        THEN /\ lock' = NoThread
             /\ ReturnFromGet(t, Raise(h.exc))
             /\ UNCHANGED queue
        ELSE IF IsMatch(h.item, rtype[t], ruid[t])
        THEN /\ lock' = NoThread
             /\ ReturnFromGet(t, Value(h.item))
             /\ UNCHANGED queue
        ELSE /\ queue' = Append(queue, [h.item EXCEPT !.by = "get"])
             /\ cnt' = Set(cnt, t, cnt[t] + 1)
             /\ pc' = Set(pc, t, "g_read")
             /\ cur' = Set(cur, t, NoCur)
             /\ UNCHANGED <<lock, ret, yielded, idx, rtype, ruid, q0, exh0>>
  /\ savedata' = AfterHandler(cur[t]).savedata
  /\ dset' = AfterHandler(cur[t]).dset
  /\ handles' = AfterHandler(cur[t]).handles
  /\ UNCHANGED <<out, peer, wire, unsol, nextUid, callVars, active, dsetFails,
                 byteVars>>

\* ------------------- send_store_data_query / send_retrieve_data_query
QueryId(t) ==
  IF op[t] = "store" THEN MRD_MESSAGE_ISMRMRD_STORE_DATA_QUERY
  ELSE MRD_MESSAGE_ISMRMRD_RETRIEVE_DATA_QUERY

\* a send that does not wait for the lock
SendLockNotHeld(t) ==
  /\ pc[t] = "s_lock"
  /\ lock' = t
  /\ pc' = Set(pc, t, "s_id")
  /\ UNCHANGED <<sockVars, is_exhausted, queue, nextUid, callVars, locals,
                 ret, yielded, closedAt, envVars>>

\* with self.lock:
SendLock(t) ==
  /\ pc[t] = "s_lock"
  /\ lock = NoThread
  /\ lock' = t
  /\ pc' = Set(pc, t, "s_id")
  /\ UNCHANGED <<sockVars, is_exhausted, queue, nextUid, callVars, locals,
                 ret, yielded, closedAt, envVars>>

\* self.socket.send(constants.MrdMessageIdentifier.pack(...))
SendIdentifier(t) ==
  /\ pc[t] = "s_id"
  /\ out' = Append(out, [part |-> "id", id |-> QueryId(t), uid |-> ruid[t]])
  /\ pc' = Set(pc, t, "s_body")
  /\ UNCHANGED <<stream, peer, wire, unsol, connVars, callVars, locals,
                 ret, yielded, closedAt, envVars>>

\* the sends of uid, name and data; the lock is released; then
\* res = self.get_data_response(...)
SendPayload(t) ==
  /\ pc[t] = "s_body"
  /\ out' = Append(out, [part |-> "payload", id |-> QueryId(t), uid |-> ruid[t]])
  /\ lock' = NoThread
  /\ pc' = Set(pc, t, "g_scan")
  /\ q0' = Set(q0, t, queue)
  /\ exh0' = Set(exh0, t, is_exhausted)
  /\ UNCHANGED <<stream, peer, wire, unsol, is_exhausted, queue, nextUid,
                 callVars, ret, yielded, closedAt, envVars,
                 idx, cnt, cur, rtype, ruid>>

\* ----------------------------------------------------------- the peer
\* The peer reads the oldest query and answers it with the query's uid.
PeerAnswer(status) ==
  /\ peer = "open"
  /\ Len(out) >= 2
  /\ out[1].part = "id" /\ out[2].part = "payload" /\ out[2].uid = out[1].uid
  /\ out' = SubSeq(out, 3, Len(out))
  /\ LET f == Frame(IF out[1].id = MRD_MESSAGE_ISMRMRD_STORE_DATA_QUERY
                    THEN MRD_MESSAGE_ISMRMRD_STORE_DATA_RESPONSE
                    ELSE MRD_MESSAGE_ISMRMRD_RETRIEVE_DATA_RESPONSE,
                    "", out[1].uid, status, Len(wire) + 1) IN
     /\ stream' = stream \o Tokens(f)
     /\ wire' = Append(wire, f)
  /\ UNCHANGED <<peer, unsol, connVars, callVars, locals, pc, ret, yielded,
                 closedAt, envVars>>

\* The peer closes its end: recv returns b'' once the stream is drained.
PeerClose ==
  /\ peer = "open"
  /\ peer' = "closed"
  /\ UNCHANGED <<stream, out, wire, unsol, connVars, callVars, locals, pc, ret,
                 yielded, closedAt, envVars>>

\* The connection is reset: recv raises ConnectionResetError.
PeerReset ==
  /\ peer = "open"
  /\ peer' = "reset"
  /\ stream' = <<>>
  /\ UNCHANGED <<out, wire, unsol, connVars, callVars, locals, pc, ret,
                 yielded, closedAt, envVars>>

\* --------------------------------------------------------------- Next
Next ==
  \/ \E t \in Threads : CallNext(t)
  \/ \E t \in Threads : \E g \in ConcTargets : CallGetDataResponse(t, g[1], g[2])
  \/ \E t \in Threads : CallStoreData(t)
  \/ \E t \in Threads : CallRetrieveData(t)
  \/ \E t \in Threads : NextScan(t)
  \/ \E t \in Threads : NextPop(t)
  \/ \E t \in Threads : NextLock(t)
  \/ \E t \in Threads : NextRead(t)
  \/ \E t \in Threads : NextHandle(t)
  \/ \E t \in Threads : GetScan(t)
  \/ \E t \in Threads : GetPop(t)
  \/ \E t \in Threads : GetLock(t)
  \/ \E t \in Threads : GetRead(t)
  \/ \E t \in Threads : GetHandle(t)
  \/ \E t \in Threads : SendLock(t)
  \/ \E t \in Threads : SendIdentifier(t)
  \/ \E t \in Threads : SendPayload(t)
  \/ \E s \in Statuses : PeerAnswer(s)
  \/ PeerClose

\* Two threads and the peer, in every interleaving.
Spec == Init /\ [][Next]_vars

\* Two threads that call next() and get_data_response() only.
NextReaders ==
  \/ \E t \in Threads : CallNext(t)
  \/ \E t \in Threads : \E g \in ConcTargets : CallGetDataResponse(t, g[1], g[2])
  \/ \E t \in Threads : NextScan(t)
  \/ \E t \in Threads : NextPop(t)
  \/ \E t \in Threads : NextLock(t)
  \/ \E t \in Threads : NextRead(t)
  \/ \E t \in Threads : NextHandle(t)
  \/ \E t \in Threads : GetScan(t)
  \/ \E t \in Threads : GetPop(t)
  \/ \E t \in Threads : GetLock(t)
  \/ \E t \in Threads : GetRead(t)
  \/ \E t \in Threads : GetHandle(t)
  \/ PeerClose

SpecReaders == Init /\ [][NextReaders]_vars

\* Two threads that call store_data() and retrieve_data() only.
NextWriters ==
  \/ \E t \in Threads : CallStoreData(t)
  \/ \E t \in Threads : CallRetrieveData(t)
  \/ \E t \in Threads : GetScan(t)
  \/ \E t \in Threads : GetPop(t)
  \/ \E t \in Threads : GetLock(t)
  \/ \E t \in Threads : GetRead(t)
  \/ \E t \in Threads : GetHandle(t)
  \/ \E t \in Threads : SendLock(t)
  \/ \E t \in Threads : SendIdentifier(t)
  \/ \E t \in Threads : SendPayload(t)
  \/ \E s \in Statuses : PeerAnswer(s)
  \/ PeerClose

InitWriters == InitWith(Threads, <<>>, "open")

SpecWriters == InitWriters /\ [][NextWriters]_vars

\* shutdown_close: self.socket.shutdown(SHUT_RDWR); self.socket.close().
\* It is the last call made on the connection; self.dset is not touched.
ShutdownClose ==
  /\ active # {}
  /\ \A t \in active : pc[t] = "idle"
  /\ active' = {}
  /\ UNCHANGED <<sockVars, connVars, callVars, locals, pc, ret, yielded,
                 closedAt, savedata, dsetFails, dset, handles, byteVars>>

\* next() and iteration on a connection that may save, then shutdown_close.
NextDset ==
  \/ \E t \in Threads : CallNext(t)
  \/ \E t \in Threads : CallIter(t)
  \/ \E t \in Threads : NextScan(t)
  \/ \E t \in Threads : NextLock(t)
  \/ \E t \in Threads : NextRead(t)
  \/ \E t \in Threads : NextHandle(t)
  \/ \E t \in Threads : IterCheck(t)
  \/ ShutdownClose

SpecDset == InitDset /\ [][NextDset]_vars

\* Two threads call next() and store_data() on a
\* connection that saves what it receives; the stream holds frames whose
\* handlers raise: an identifier without a handler, a config text that is
\* written to a dataset file that may fail, a frame cut short by the end
\* of the stream.  The response is the one to the first store_data().
LockFrames ==
  { Frame(MRD_MESSAGE_ACQUISITION, "", 0, 0, 0),
    Frame(MRD_MESSAGE_CONFIG_TEXT, "recon_mode=fast", 0, 0, 0),
    Frame(MRD_MESSAGE_ISMRMRD_STORE_DATA_RESPONSE, "", FirstUid, 1, 0) }

InitLock ==
  \E fs \in FrameSeqs(LockFrames, MaxFrames) : \E f \in BOOLEAN :
    \E p \in {"open", "closed"} : \E cut \in {0, IF p = "closed" THEN 1 ELSE 0} :
      /\ InitConnection
      /\ active = Threads
      /\ savedata = TRUE /\ dsetFails = f
      /\ transport = "full"
      /\ wire = [i \in 1..Len(fs) |-> [fs[i] EXCEPT !.n = i]]
      /\ stream = SubSeq(TokensOf(fs, 1), 1, Len(TokensOf(fs, 1)) - cut)
      /\ unsol = Len(fs)
      /\ out = <<>>
      /\ peer = p

NextLocking ==
  \/ \E t \in Threads : CallNext(t)
  \/ \E t \in Threads : CallStoreData(t)
  \/ \E t \in Threads : NextScan(t)
  \/ \E t \in Threads : NextPop(t)
  \/ \E t \in Threads : NextLock(t)
  \/ \E t \in Threads : NextRead(t)
  \/ \E t \in Threads : NextHandle(t)
  \/ \E t \in Threads : GetScan(t)
  \/ \E t \in Threads : GetPop(t)
  \/ \E t \in Threads : GetLock(t)
  \/ \E t \in Threads : GetRead(t)
  \/ \E t \in Threads : GetHandle(t)
  \/ \E t \in Threads : SendLock(t)
  \/ \E t \in Threads : SendIdentifier(t)
  \/ \E t \in Threads : SendPayload(t)

SpecLock == InitLock /\ [][NextLocking]_vars

\* next(), iteration and get_data_response(), one call after the other.
NextSeq ==
  \/ \E t \in Threads : CallNext(t)
  \/ \E t \in Threads : CallIter(t)
  \/ \E t \in Threads : \E g \in GetTargets : CallGetDataResponse(t, g[1], g[2])
  \/ \E t \in Threads : NextScan(t)
  \/ \E t \in Threads : NextPop(t)
  \/ \E t \in Threads : NextLock(t)
  \/ \E t \in Threads : NextRead(t)
  \/ \E t \in Threads : NextHandle(t)
  \/ \E t \in Threads : IterCheck(t)
  \/ \E t \in Threads : GetScan(t)
  \/ \E t \in Threads : GetPop(t)
  \/ \E t \in Threads : GetLock(t)
  \/ \E t \in Threads : GetRead(t)
  \/ \E t \in Threads : GetHandle(t)
  \/ PeerReset

SpecSeq == InitSeq /\ [][NextSeq]_vars

\* The same calls on a connection that saves what it receives.
SpecSave == InitSave /\ [][NextSeq]_vars

\* get_data_response() on a long stream.
NextPeek ==
  \/ \E t \in Threads : \E g \in GetTargets : CallGetDataResponse(t, g[1], g[2])
  \/ \E t \in Threads : GetScan(t)
  \/ \E t \in Threads : GetPop(t)
  \/ \E t \in Threads : GetLock(t)
  \/ \E t \in Threads : GetRead(t)
  \/ \E t \in Threads : GetHandle(t)

SpecPeek == InitPeek /\ [][NextPeek]_vars

\* =========================================================== byte level
\* The frames as bytes: what the send methods write with socket.send and
\* what the read methods make of the bytes socket.recv delivers.  A text is
\* a sequence of code points, a bytes object a sequence of 0..255.

\* constants.py
MRD_MESSAGE_METADATA_XML_TEXT         == 3
SIZEOF_MRD_MESSAGE_LENGTH             == 4
SIZEOF_MRD_MESSAGE_IDENTIFIER         == 2
SIZEOF_MRD_MESSAGE_CONFIGURATION_FILE == 1024
SIZEOF_MRD_MESSAGE_STATUS             == 4
SIZEOF_MRD_MESSAGE_UUID               == 16

MaxText  == 2    \* code points of a text or name
MaxData  == 1    \* bytes of a data field
MaxSent  == 2    \* frames written: one message, then Close
MaxReads == 2    \* frames the reader decodes

Chars        == {0, 97, 233}    \* "\0", "a", "e" with acute accent (2 bytes)
DataBytes    == {0, 255}
ByteUids     == {1, 258}
ByteStatuses == {0, 258}

Texts == FrameSeqs(Chars, MaxText)
Datas == FrameSeqs(DataBytes, MaxData)

\* File names about as long as the fixed field.
LongNames ==
  { [i \in 1..n |-> 97] :
      n \in (SIZEOF_MRD_MESSAGE_CONFIGURATION_FILE - 1)
              ..(SIZEOF_MRD_MESSAGE_CONFIGURATION_FILE + 1) }
  \cup { [i \in 1..SIZEOF_MRD_MESSAGE_CONFIGURATION_FILE |->
            IF i = SIZEOF_MRD_MESSAGE_CONFIGURATION_FILE THEN 233 ELSE 97] }

\* A message as the sender holds it and as the read methods return it.
\* cls is the Python class, or the frame kind for the messages that are
\* plain str.
Msg(cls, text, data, uid, status) ==
  [cls |-> cls, text |-> text, data |-> data, uid |-> uid, status |-> status]

NoneMsg == Msg("NoneType", <<>>, <<>>, 0, 0)

\* struct.Struct('<H'), ('<I'): little-endian, w bytes.  Every value packed
\* here fits its field.
packBigEndian(n, w) == [i \in 1..w |-> (n \div (256 ^ (w - i))) % 256]

pack(n, w) == [i \in 1..w |-> (n \div (256 ^ (i - 1))) % 256]

RECURSIVE unpack(_)
unpack(b) == IF b = <<>> THEN 0 ELSE Head(b) + 256 * unpack(Tail(b))

\* struct.Struct('<1024s').pack: "the string is truncated or padded with
\* null bytes as appropriate to make it fit".
MrdMessageConfigurationFile_pack(b) ==
  [i \in 1..SIZEOF_MRD_MESSAGE_CONFIGURATION_FILE |->
     IF i <= Len(b) THEN b[i] ELSE 0]

\* uuid.UUID.bytes: 16 bytes, big-endian (the uids here are below 65536).
uid_bytes(u) ==
  [i \in 1..SIZEOF_MRD_MESSAGE_UUID |->
     IF i > SIZEOF_MRD_MESSAGE_UUID - 2
     THEN (u \div (256 ^ (SIZEOF_MRD_MESSAGE_UUID - i))) % 256 ELSE 0]

\* uuid.UUID(bytes=b), for b of 16 bytes.
RECURSIVE UUID(_, _)
UUID(b, acc) == IF b = <<>> THEN acc ELSE UUID(Tail(b), 256 * acc + Head(b))

\* str.encode(): UTF-8, for code points below 2048.
Utf8(c) == IF c < 128 THEN <<c>> ELSE <<192 + (c \div 64), 128 + (c % 64)>>

RECURSIVE encode(_)
encode(s) ==
  IF Len(s) = 0 THEN <<>>
  ELSE IF Len(s) = 1 THEN Utf8(s[1])
  ELSE LET h == Len(s) \div 2 IN
       encode(SubSeq(s, 1, h)) \o encode(SubSeq(s, h + 1, Len(s)))

\* bytes.decode("utf-8"): every byte is an ASCII character, or the lead
\* byte of a two-byte character with its continuation byte behind it, or
\* that continuation byte; anything else raises UnicodeDecodeError.  (Lead
\* bytes of longer characters do not occur in what is sent here.)
IsLead(x) == x \in 194..223
IsCont(x) == x \in 128..191

decode_ok(b) ==
  \A i \in 1..Len(b) :
    \/ b[i] < 128
    \/ IsLead(b[i]) /\ i < Len(b) /\ IsCont(b[i + 1])
    \/ IsCont(b[i]) /\ i > 1 /\ IsLead(b[i - 1])

decode(b) ==
  LET IsStart(i) == ~IsCont(b[i])
      starts == SelectSeq([i \in 1..Len(b) |-> i], IsStart)
  IN  [j \in 1..Len(starts) |->
         LET i == starts[j] IN
         IF b[i] < 128 THEN b[i] ELSE (b[i] - 192) * 64 + (b[i + 1] - 128)]

\* text.split('\x00',1)[0]
SplitNul(t) ==
  LET z == {i \in 1..Len(t) : t[i] = 0} IN
  IF z = {} THEN t
  ELSE SubSeq(t, 1, (CHOOSE i \in z : \A j \in z : i <= j) - 1)

\* '%s\0' % contents, encoded
with_nul(contents) == encode(contents \o <<0>>)

\* Connection.read: socket.recv(nbytes, MSG_WAITALL) on the bytes b that
\* are still to come: nbytes of them, fewer when the sender has closed.
read(b, nbytes) ==
  LET k == IF nbytes < Len(b) THEN nbytes ELSE Len(b) IN
  [got |-> SubSeq(b, 1, k), rest |-> SubSeq(b, k + 1, Len(b))]

\* One field read off b: the value, or the exception raised on the way,
\* and the bytes left behind.
Field(val, rest) == [ok |-> TRUE,  exc |-> "",  val |-> val, rest |-> rest]
Fails(exc, rest) == [ok |-> FALSE, exc |-> exc, val |-> 0,   rest |-> rest]

\* read_mrd_message_length
read_mrd_message_length(b) ==
  LET r == read(b, SIZEOF_MRD_MESSAGE_LENGTH) IN
  IF Len(r.got) # SIZEOF_MRD_MESSAGE_LENGTH THEN Fails("struct.error", r.rest)
  ELSE Field(unpack(r.got), r.rest)

\* uid_bytes = self.read(SIZEOF_MRD_MESSAGE_UUID); uuid.UUID(bytes=uid_bytes)
read_uid(b) ==
  LET r == read(b, SIZEOF_MRD_MESSAGE_UUID) IN
  IF Len(r.got) # SIZEOF_MRD_MESSAGE_UUID THEN Fails("ValueError", r.rest)
  ELSE Field(UUID(r.got, 0), r.rest)

\* status_bytes = self.read(SIZEOF_MRD_MESSAGE_STATUS); MrdMessageStatus.unpack
read_status(b) ==
  LET r == read(b, SIZEOF_MRD_MESSAGE_STATUS) IN
  IF Len(r.got) # SIZEOF_MRD_MESSAGE_STATUS THEN Fails("struct.error", r.rest)
  ELSE Field(unpack(r.got), r.rest)

\* length = self.read_mrd_message_length(); text = self.read(length);
\* text.decode("utf-8").split('\x00',1)[0]
read_string(b) ==
  LET n == read_mrd_message_length(b) IN
  IF ~n.ok THEN n
  ELSE LET r == read(n.rest, n.val) IN
       IF ~decode_ok(r.got) THEN Fails("UnicodeDecodeError", r.rest)
       ELSE Field(SplitNul(decode(r.got)), r.rest)

\* dataLength = self.read_mrd_message_length(); data = self.read(dataLength)
read_data(b) ==
  LET n == read_mrd_message_length(b) IN
  IF ~n.ok THEN n
  ELSE LET r == read(n.rest, n.val) IN Field(r.got, r.rest)

\* What a read method hands back: the result and the bytes left behind.
Returns(item, rest) == [res |-> Value(item), rest |-> rest]
Raises(f)           == [res |-> Raise(f.exc), rest |-> f.rest]

\* read_config_file
read_config_file(b) ==
  LET r == read(b, SIZEOF_MRD_MESSAGE_CONFIGURATION_FILE) IN
  IF Len(r.got) # SIZEOF_MRD_MESSAGE_CONFIGURATION_FILE
  THEN Raises(Fails("struct.error", r.rest))
  ELSE IF ~decode_ok(r.got) THEN Raises(Fails("UnicodeDecodeError", r.rest))
  ELSE Returns(Msg("ConfigFile", SplitNul(decode(r.got)), <<>>, 0, 0), r.rest)

\* read_config_text, read_metadata, read_text (savedata is False)
read_text_as(cls, b) ==
  LET t == read_string(b) IN
  IF ~t.ok THEN Raises(t) ELSE Returns(Msg(cls, t.val, <<>>, 0, 0), t.rest)

\* read_store_data_query
read_store_data_query(b) ==
  LET u == read_uid(b) IN
  IF ~u.ok THEN Raises(u) ELSE
  LET n == read_string(u.rest) IN
  IF ~n.ok THEN Raises(n) ELSE
  LET d == read_data(n.rest) IN
  IF ~d.ok THEN Raises(d)
  ELSE Returns(Msg("MrdStoreDataQuery", n.val, d.val, u.val, 0), d.rest)

\* read_store_data_response
read_store_data_response(b) ==
  LET u == read_uid(b) IN
  IF ~u.ok THEN Raises(u) ELSE
  LET s == read_status(u.rest) IN
  IF ~s.ok THEN Raises(s)
  ELSE Returns(Msg("MrdStoreDataResponse", <<>>, <<>>, u.val, s.val), s.rest)

\* read_retrieve_data_query
read_retrieve_data_query(b) ==
  LET u == read_uid(b) IN
  IF ~u.ok THEN Raises(u) ELSE
  LET n == read_string(u.rest) IN
  IF ~n.ok THEN Raises(n)
  ELSE Returns(Msg("MrdRetrieveDataQuery", n.val, <<>>, u.val, 0), n.rest)

\* read_retrieve_data_response
read_retrieve_data_response(b) ==
  LET u == read_uid(b) IN
  IF ~u.ok THEN Raises(u) ELSE
  LET s == read_status(u.rest) IN
  IF ~s.ok THEN Raises(s) ELSE
  LET n == read_string(s.rest) IN
  IF ~n.ok THEN Raises(n) ELSE
  LET d == read_data(n.rest) IN
  IF ~d.ok THEN Raises(d)
  ELSE Returns(Msg("MrdRetrieveDataResponse", n.val, d.val, u.val, s.val), d.rest)

\* One round of the loop of next(): read_mrd_message_identifier, then the
\* handler of the identifier.  id is 0 when no identifier was obtained.
ReadMessage(b) ==
  LET r  == read(b, SIZEOF_MRD_MESSAGE_IDENTIFIER)
      id == unpack(r.got)
      h  == IF id = MRD_MESSAGE_CONFIG_FILE THEN read_config_file(r.rest)
            ELSE IF id = MRD_MESSAGE_CONFIG_TEXT THEN read_text_as("ConfigText", r.rest)
            ELSE IF id = MRD_MESSAGE_METADATA_XML_TEXT THEN read_text_as("Metadata", r.rest)
            ELSE IF id = MRD_MESSAGE_CLOSE THEN Returns(NoneMsg, r.rest)
            ELSE IF id = MRD_MESSAGE_TEXT THEN read_text_as("Text", r.rest)
            ELSE IF id = MRD_MESSAGE_ISMRMRD_STORE_DATA_QUERY THEN read_store_data_query(r.rest)
            ELSE IF id = MRD_MESSAGE_ISMRMRD_STORE_DATA_RESPONSE THEN read_store_data_response(r.rest)
            ELSE IF id = MRD_MESSAGE_ISMRMRD_RETRIEVE_DATA_QUERY THEN read_retrieve_data_query(r.rest)
            ELSE IF id = MRD_MESSAGE_ISMRMRD_RETRIEVE_DATA_RESPONSE THEN read_retrieve_data_response(r.rest)
            ELSE Raises(Fails("StopIteration", r.rest))
  IN  IF Len(r.got) = 0 THEN [id |-> 0, res |-> Value(NoneMsg), rest |-> r.rest]
      ELSE IF Len(r.got) # SIZEOF_MRD_MESSAGE_IDENTIFIER
      THEN [id |-> 0, res |-> Raise("struct.error"), rest |-> r.rest]
      ELSE [id |-> id, res |-> h.res, rest |-> h.rest]

\* The state of the model above, which the byte level leaves alone.
objVars == <<sockVars, connVars, callVars, locals, pc, ret, yielded, closedAt,
             active, savedata, dsetFails, dset, handles>>

\* The buffers bufs joined.
RECURSIVE Flatten(_)
Flatten(bufs) ==
  IF bufs = <<>> THEN <<>> ELSE Head(bufs) \o Flatten(Tail(bufs))

\* What the calls socket.send(b) for the buffers b of bufs, made one after
\* the other, put on the stream.  socket.send returns the number of bytes
\* the transport accepted, and no send method looks at it.  A transport
\* that takes every buffer whole ("full") writes them all.  One that may
\* take part of a buffer ("partial", e.g. a socket with a timeout)
\*   - takes them all, or
\*   - takes k bytes of one buffer, 0 < k < len(b): the later buffers are
\*     sent behind them and the method returns, or
\*   - raises OSError in one of the calls: the method is left there.
SendOutcomes(bufs) ==
  { [bytes |-> Flatten(bufs), raised |-> FALSE] }
  \cup
  IF transport = "full" THEN {}
  ELSE UNION { { [bytes |-> Flatten(SubSeq(bufs, 1, i - 1))
                              \o SubSeq(bufs[i], 1, k)
                              \o Flatten(SubSeq(bufs, i + 1, Len(bufs))),
                    raised |-> FALSE] : k \in 1..(Len(bufs[i]) - 1) } :
                i \in DOMAIN bufs }
       \cup { [bytes |-> Flatten(SubSeq(bufs, 1, i - 1)), raised |-> TRUE] :
                i \in DOMAIN bufs }

\* with self.lock: self.socket.send(...) ...: the sends of one message.
\* len is the length of the frame, raised whether the method raised.
SocketSend(msg, bufs) ==
  /\ phase = "send"
  /\ \E o \in SendOutcomes(bufs) :
       /\ sentMsgs' = Append(sentMsgs, [msg |-> msg, len |-> Len(Flatten(bufs)),
                                        raised |-> o.raised])
       /\ written' = written \o o.bytes
  /\ UNCHANGED <<inbound, results, phase, transport, objVars>>

MrdMessageIdentifier_pack(id) == pack(id, SIZEOF_MRD_MESSAGE_IDENTIFIER)
MrdMessageLength_pack(n)      == pack(n, SIZEOF_MRD_MESSAGE_LENGTH)
MrdMessageStatus_pack(n)      == pack(n, SIZEOF_MRD_MESSAGE_STATUS)

send_config_file(filename) ==
  /\ sentMsgs = <<>>
  /\ SocketSend(Msg("ConfigFile", filename, <<>>, 0, 0),
       << MrdMessageIdentifier_pack(MRD_MESSAGE_CONFIG_FILE),
          MrdMessageConfigurationFile_pack(encode(filename)) >>)

\* send_config_text, send_metadata, send_text
send_text_as(cls, id, contents) ==
  /\ sentMsgs = <<>>
  /\ SocketSend(Msg(cls, contents, <<>>, 0, 0),
       << MrdMessageIdentifier_pack(id),
          MrdMessageLength_pack(Len(with_nul(contents))),
          with_nul(contents) >>)

send_config_text(contents) ==
  send_text_as("ConfigText", MRD_MESSAGE_CONFIG_TEXT, contents)

send_metadata(contents) ==
  send_text_as("Metadata", MRD_MESSAGE_METADATA_XML_TEXT, contents)

send_text(contents) ==
  send_text_as("Text", MRD_MESSAGE_TEXT, contents)

send_close ==
  /\ Len(sentMsgs) < MaxSent
  /\ SocketSend(NoneMsg, << MrdMessageIdentifier_pack(MRD_MESSAGE_CLOSE) >>)

send_store_data_query(q) ==
  /\ sentMsgs = <<>>
  /\ SocketSend(q,
       << MrdMessageIdentifier_pack(MRD_MESSAGE_ISMRMRD_STORE_DATA_QUERY),
          uid_bytes(q.uid),
          MrdMessageLength_pack(Len(with_nul(q.text))), with_nul(q.text),
          MrdMessageLength_pack(Len(q.data)), q.data >>)

send_store_data_response(r) ==
  /\ sentMsgs = <<>>
  /\ SocketSend(r,
       << MrdMessageIdentifier_pack(MRD_MESSAGE_ISMRMRD_STORE_DATA_RESPONSE),
          uid_bytes(r.uid),
          MrdMessageStatus_pack(r.status) >>)

send_retrieve_data_query(q) ==
  /\ sentMsgs = <<>>
  /\ SocketSend(q,
       << MrdMessageIdentifier_pack(MRD_MESSAGE_ISMRMRD_RETRIEVE_DATA_QUERY),
          uid_bytes(q.uid),
          MrdMessageLength_pack(Len(with_nul(q.text))), with_nul(q.text) >>)

send_retrieve_data_response(r) ==
  /\ sentMsgs = <<>>
  /\ SocketSend(r,
       << MrdMessageIdentifier_pack(MRD_MESSAGE_ISMRMRD_RETRIEVE_DATA_RESPONSE),
          uid_bytes(r.uid),
          MrdMessageStatus_pack(r.status),
          MrdMessageLength_pack(Len(with_nul(r.text))), with_nul(r.text),
          MrdMessageLength_pack(Len(r.data)), r.data >>)

\* The first k bytes written reach the reader; the sender's end of the
\* socket closes behind them.
Transmit(k) ==
  /\ phase = "send"
  /\ sentMsgs # <<>>
  /\ inbound' = SubSeq(written, 1, k)
  /\ phase' = "recv"
  /\ UNCHANGED <<sentMsgs, written, results, transport, objVars>>

\* The reader decodes one frame, unless the last round raised or met the
\* end of the stream.
ReadFrame ==
  /\ phase = "recv"
  /\ Len(results) < MaxReads
  /\ results # <<>> =>
       /\ results[Len(results)].res.kind = "value"
       /\ results[Len(results)].id # 0
  /\ LET m == ReadMessage(inbound) IN
       /\ results' = Append(results, [id |-> m.id, res |-> m.res])
       /\ inbound' = m.rest
  /\ UNCHANGED <<sentMsgs, written, phase, transport, objVars>>

NextBytes ==
  \/ \E f \in Texts \cup LongNames : send_config_file(f)
  \/ \E c \in Texts : send_config_text(c)
  \/ \E c \in Texts : send_metadata(c)
  \/ \E c \in Texts : send_text(c)
  \/ send_close
  \/ \E n \in Texts : \E d \in Datas : \E u \in ByteUids :
       send_store_data_query(Msg("MrdStoreDataQuery", n, d, u, 0))
  \/ \E u \in ByteUids : \E s \in ByteStatuses :
       send_store_data_response(Msg("MrdStoreDataResponse", <<>>, <<>>, u, s))
  \/ \E n \in Texts : \E u \in ByteUids :
       send_retrieve_data_query(Msg("MrdRetrieveDataQuery", n, <<>>, u, 0))
  \/ \E n \in Texts : \E d \in Datas : \E u \in ByteUids : \E s \in ByteStatuses :
       send_retrieve_data_response(Msg("MrdRetrieveDataResponse", n, d, u, s))
  \/ \E k \in 0..Len(written) : Transmit(k)
  \/ ReadFrame

InitBytes == InitWith({1}, <<>>, "open")

SpecBytes == InitBytes /\ [][NextBytes]_vars

\* The send methods on a socket whose send may take part of a buffer or
\* raise.
NextPartial ==
  \/ \E f \in Texts \cup LongNames : send_config_file(f)
  \/ \E c \in Texts : send_config_text(c)
  \/ \E c \in Texts : send_metadata(c)
  \/ \E c \in Texts : send_text(c)
  \/ send_close
  \/ \E n \in Texts : \E d \in Datas : \E u \in ByteUids :
       send_store_data_query(Msg("MrdStoreDataQuery", n, d, u, 0))
  \/ \E u \in ByteUids : \E s \in ByteStatuses :
       send_store_data_response(Msg("MrdStoreDataResponse", <<>>, <<>>, u, s))
  \/ \E n \in Texts : \E u \in ByteUids :
       send_retrieve_data_query(Msg("MrdRetrieveDataQuery", n, <<>>, u, 0))
  \/ \E n \in Texts : \E d \in Datas : \E u \in ByteUids : \E s \in ByteStatuses :
       send_retrieve_data_response(Msg("MrdRetrieveDataResponse", n, d, u, s))

InitPartial ==
  /\ InitConnection
  /\ active = {1}
  /\ savedata = FALSE /\ dsetFails = FALSE
  /\ transport = "partial"
  /\ wire = <<>> /\ stream = <<>> /\ unsol = 0 /\ out = <<>>
  /\ peer = "open"

SpecPartial == InitPartial /\ [][NextPartial]_vars

\* ============================================================= claims
\* q holds an entry of class cls whose uid is uid.
HasMatch(q, cls, uid) ==
  \E i \in DOMAIN q : q[i].cls = cls /\ q[i].uid = uid

\* Thread t is past the queue scan of get_data_response while the response
\* it looks for is in the queue: this call will not look at the queue again.
ResponseLost(t) ==
  /\ pc[t] \in {"g_lock", "g_read", "g_handle"}
  /\ HasMatch(queue, rtype[t], ruid[t])

\* ------------------------------------------------------------------ C1
\* Each thread has made at most one call, a store_data, and the peer has
\* sent nothing but answers.
StoreOnly ==
  /\ unsol = 0
  /\ peer = "open"
  /\ \A t \in Threads : calls[t] <= 1 /\ op[t] \in {"none", "store"}

\* Thread t waits in recv, holding the lock, for bytes that cannot come:
\* no query is under way and no other thread is in a call.
WaitsForever(t) ==
  /\ pc[t] = "g_read" /\ lock = t /\ cnt[t] < maxPeekMessages
  /\ stream = <<>> /\ out = <<>> /\ peer = "open"
  /\ \A u \in Threads \ {t} : pc[u] = "idle"

\* C1: when two threads call store_data concurrently and the peer answers
\* each query with status 0 in request order, neither call fails, each
\* returns status 0 from the response that carries its own uid, and neither
\* waits forever while its response sits in the queue.
C1_ConcurrentStoresReturnOwn ==
  StoreOnly =>
    \A t \in Threads :
      /\ ret[t].kind # "raise"
      /\ ret[t].kind = "value" => ret[t].item.cls = "int" /\ ret[t].item.status = 0
      /\ (pc[t] = "g_pop" /\ idx[t] <= Len(queue)) => queue[idx[t]].uid = ruid[t]
      /\ ~(WaitsForever(t) /\ ResponseLost(t))

\* ------------------------------------------------------------------ C2
\* Thread 1 has called nothing but next(), thread 2 nothing but one
\* store_data or retrieve_data, and the peer is connected.
NextAndQuery ==
  /\ peer = "open"
  /\ calls[1] <= 1 /\ op[1] \in {"none", "next"}
  /\ calls[2] <= 1 /\ op[2] \in {"none", "store", "retrieve"}

\* next() holds the lock in recv waiting for the peer, the sender waits for
\* the lock to send its query, and the peer waits for a query.
LockedOut ==
  /\ pc[1] = "n_read" /\ lock = 1
  /\ stream = <<>> /\ out = <<>>
  /\ pc[2] = "s_lock"

\* C2: with one thread in next() and another in store_data or
\* retrieve_data, no reachable state is a deadlock, and a response that
\* next() read from the stream is not lost to the caller that waits for it.
C2_QueryReturnsBesideNext ==
  NextAndQuery => ~LockedOut /\ ~ResponseLost(2)

\* ------------------------------------------------------------------ C8
\* C8: a value returned by next() is never a MrdStoreDataResponse or a
\* MrdRetrieveDataResponse, whatever the interleaving of the callers of
\* next() and get_data_response().
C8_NextNeverReturnsResponse ==
  \A t \in Threads :
    (op[t] \in {"next", "iter"} /\ ret[t].kind = "value") =>
      ret[t].item.cls \notin {"MrdStoreDataResponse", "MrdRetrieveDataResponse"}

\* ------------------------------------------------------------------ C5
\* C5: once a Close frame has been decoded the connection is exhausted and
\* next() returns no frame that follows the Close on the stream.
C5_NothingAfterClose ==
  closedAt > 0 =>
    /\ is_exhausted
    /\ \A t \in Threads :
         (op[t] \in {"next", "iter"} /\ ret[t].kind = "value") =>
           ret[t].item.n <= closedAt

\* ------------------------------------------------------------------ C6
\* C6: once the connection is exhausted no call reads from the stream
\* again, neither an identifier nor a payload.
C6_NoReadOnceExhausted ==
  [][ is_exhausted =>
        \A t \in Threads :
          /\ ~(pc[t] \in {"n_read", "g_read"} /\ nread'[t] = nread[t] + 1)
          /\ ~(pc[t] \in {"n_handle", "g_handle"} /\ Len(stream') < Len(stream))
    ]_vars

\* ------------------------------------------------------------------ C7
\* The peer sent ConfigText("recon_mode=fast"), Text("hello"), Close and
\* nothing else, the connection was not reset, and thread 1 iterates.
ConfigTextClose ==
  /\ Len(wire) = 3
  /\ wire[1].id = MRD_MESSAGE_CONFIG_TEXT /\ wire[1].text = "recon_mode=fast"
  /\ wire[2].id = MRD_MESSAGE_TEXT /\ wire[2].text = "hello"
  /\ wire[3].id = MRD_MESSAGE_CLOSE
  /\ peer # "reset"
  /\ calls[1] = 1 /\ op[1] = "iter"

\* C7: iterating over ConfigText, Text, Close yields exactly two items, the
\* ConfigText and then the Text, and the connection becomes exhausted only
\* once the Close frame has been read.
C7_IterationYieldsTwoItems ==
  ConfigTextClose =>
    /\ Len(yielded[1]) <= 2
    /\ Len(yielded[1]) >= 1 =>
         yielded[1][1].cls = "str" /\ yielded[1][1].text = "recon_mode=fast"
    /\ Len(yielded[1]) >= 2 =>
         yielded[1][2].cls = "str" /\ yielded[1][2].text = "hello"
    /\ is_exhausted <=> closedAt = 3
    /\ ret[1].kind # "raise"

\* ------------------------------------------------------------------ C9
\* q holds an entry that next() returns.
Deliverable(q) ==
  \E i \in DOMAIN q :
    q[i].cls \notin {"MrdStoreDataResponse", "MrdRetrieveDataResponse"}

\* C9: when the connection is exhausted, the queue holds nothing that
\* next() delivers and next() has just reported "no message", the iteration
\* ends instead of calling next() again.
C9_IterationEnds ==
  [][ \A t \in Threads :
        ( /\ pc[t] = "it_check" /\ pc'[t] # "it_check"
          /\ is_exhausted /\ ~Deliverable(queue)
          /\ yielded[t] # <<>> /\ yielded[t][Len(yielded[t])].cls = "NoneType" )
        => (pc'[t] = "idle" /\ ret'[t].kind = "end")
    ]_vars

\* ----------------------------------------------------------------- C10
\* q without its i-th entry, the others in their order.
Without(q, i) == SubSeq(q, 1, i - 1) \o SubSeq(q, i + 1, Len(q))

Served(q, all) ==
  { i \in DOMAIN q :
      /\ q[i].by = "get"
      /\ all \/ q[i].cls \notin {"MrdStoreDataResponse", "MrdRetrieveDataResponse"} }

\* next() does not turn to the stream while the queue holds such an entry,
\* and it returns the one that arrived first, removing it alone.
NextServes(all) ==
  \A t \in Threads :
    /\ (pc[t] = "n_scan" /\ pc'[t] = "n_lock") => Served(queue, all) = {}
    /\ (pc[t] = "n_pop" /\ pc'[t] # "n_pop") =>
         \E i \in Served(queue, all) :
           /\ \A j \in Served(queue, all) : queue[i].n <= queue[j].n
           /\ ret'[t] = [kind |-> "value", item |-> queue[i], exc |-> ""]
           /\ queue' = Without(queue, i)

\* Such an entry stays in the queue until next() returns it.
StaysQueued(all) ==
  \A i \in Served(queue, all) :
    \/ \E j \in DOMAIN queue' : queue'[j] = queue[i]
    \/ \E t \in Threads : pc[t] = "n_pop" /\ ret'[t].item = queue[i]

ClassOfId(id) ==
  IF id = 1031 THEN "MrdStoreDataResponse"
  ELSE IF id = 1033 THEN "MrdRetrieveDataResponse"
  ELSE "other"

\* Frame f is the response of class cls with uid uid.
FrameMatches(f, cls, uid) == ClassOfId(f.id) = cls /\ f.uid = uid

\* The frames of stream s that are still unread.
FramesIn(s) == Cardinality({i \in DOMAIN s : s[i].part = "id"})

\* Thread t returns from the stream search of get_data_response in this
\* step.  k0 frames of the wire were read before the call began; found is
\* the set of places, counted from the call's first read, at which one of
\* the ten frames that follow carries the response looked for.  The frames
\* before the response must be ones the connection has a handler for.
PeekResult(t) ==
  LET eof    == pc[t] = "g_read" /\ cnt[t] < 10 /\ stream = <<>>
      reads  == nread'[t] - (IF eof THEN 1 ELSE 0)
      k0     == Len(wire) - FramesIn(stream') - reads
      avail  == Len(wire) - k0
      known(p) == wire[k0 + p].id \in {2, 4, 5, 1031, 1033}
      found  == { p \in 1..10 : p <= avail /\
                                FrameMatches(wire[k0 + p], rtype[t], ruid[t]) }
      first  == CHOOSE p \in found : \A q \in found : p <= q
  IN  /\ reads <= 10
      /\ (found # {} /\ \A q \in 1..(first - 1) : known(q)) =>
            /\ ret'[t].kind = "value"
            /\ ret'[t].item.cls = rtype[t] /\ ret'[t].item.uid = ruid[t]
            /\ ret'[t].item.n = k0 + first
            /\ ret'[t].item.status = wire[k0 + first].status
            /\ reads = first
      /\ (found = {} /\ \A q \in 1..10 : q <= avail => known(q)) =>
            /\ ret'[t].kind = "value" /\ ret'[t].item.cls = "NoneType"
            /\ reads = IF avail < 10 THEN avail ELSE 10

\* C3: with no match in the queue, get_data_response returns the response
\* of the asked class and uid when it is among the first 10 frames read
\* from the stream after the call began, returns None ("not found") when
\* it comes 11th or later, and never reads more than 10 frames; this for
\* MrdStoreDataResponse and for MrdRetrieveDataResponse.
C3_PeekLimit ==
  [][ \A t \in Threads :
        (pc[t] \in {"g_read", "g_handle"} /\ pc'[t] = "idle") => PeekResult(t)
    ]_vars

\* Ten frames read and queued, and the response looked for is the 11th.
C3_Witness ==
  /\ pc[1] = "g_read" /\ cnt[1] = 10 /\ nread[1] = 10
  /\ stream # <<>>
  /\ FrameMatches(Head(stream).f, rtype[1], ruid[1])
  /\ Head(stream).f.n = 11

\* ----------------------------------------------------------------- C11
\* C11: when the connection becomes exhausted during the stream search of
\* get_data_response (end of stream, reset, or a decoded Close) the call
\* returns None ("not found") in that very step and reads no further frame.
C11_SearchStopsWhenExhausted ==
  [][ \A t \in Threads :
        (pc[t] \in {"g_read", "g_handle"} /\ ~is_exhausted /\ is_exhausted') =>
          /\ pc'[t] = "idle"
          /\ ret'[t].kind = "value" /\ ret'[t].item.cls = "NoneType"
    ]_vars

\* ----------------------------------------------------------------- C12
\* C12: once an identifier without a handler has been read, the caller is
\* told (an exception is raised) and no call reads an identifier that
\* follows it on the stream.
C12_NoReadAfterUnknownIdentifier ==
  [][ \A t \in Threads :
        /\ (pc[t] \in {"n_handle", "g_handle"} /\ pc'[t] # pc[t] /\
              cur[t].id \notin {1, 2, 4, 5, 1008, 1031, 1033}) => ret'[t].kind = "raise"
        /\ (pc[t] \in {"n_read", "g_read"} /\ nread'[t] = nread[t] + 1 /\
              stream # <<>>) =>
             \A k \in 1..(Head(stream).f.n - 1) :
               wire[k].id \in {1, 2, 4, 5, 1008, 1031, 1033}
    ]_vars

\* ----------------------------------------------------------------- C13
\* C13: while a thread is between the scan that selected a queue entry and
\* the pop that removes it, no other thread's step changes which entry is
\* at the selected index, so the entry popped is the entry selected and no
\* entry is removed twice.
C13_PopTakesSelectedEntry ==
  [][ \A t \in Threads :
        (pc[t] \in {"n_pop", "g_pop"} /\ pc'[t] = pc[t]) =>
          /\ idx[t] <= Len(queue) /\ idx[t] <= Len(queue')
          /\ queue'[idx[t]] = queue[idx[t]]
    ]_vars

\* ----------------------------------------------------------------- C14
\* Thread u reads from the stream in this step: an identifier, or the
\* payload its handler consumes.
ReadsStream(u) ==
  \/ pc[u] \in {"n_read", "g_read"} /\ nread'[u] = nread[u] + 1
  \/ pc[u] \in {"n_handle", "g_handle"} /\ pc'[u] # pc[u]

\* C14: from the read of an identifier by one thread until its handler has
\* consumed the payload, no other caller of next() or get_data_response()
\* reads from the stream; the reading thread holds the lock throughout.
C14_FrameReadsNotInterleaved ==
  [][ \A t \in Threads :
        pc[t] \in {"n_read", "n_handle", "g_read", "g_handle"} =>
          /\ lock = t
          /\ \A u \in Threads \ {t} : ~ReadsStream(u)
    ]_vars

\* Thread 1 has read an identifier and not yet the payload, and thread 2
\* waits for the lock to read.
C14_Witness ==
  /\ pc[1] = "n_handle" /\ stream # <<>> /\ Head(stream).part = "payload"
  /\ pc[2] = "g_lock"

\* ----------------------------------------------------------------- C15
\* C15: the writes of one frame reach the socket one after the other: what
\* has been written is a sequence of whole frames, identifier then payload
\* of the same message, but for the frame that the thread holding the lock
\* is in the middle of writing.
C15_FrameWritesContiguous ==
  /\ \A i \in DOMAIN out :
       IF i % 2 = 1
       THEN out[i].part = "id"
       ELSE /\ out[i].part = "payload"
            /\ out[i].id = out[i - 1].id /\ out[i].uid = out[i - 1].uid
  /\ Len(out) % 2 = 1 =>
       \E t \in Threads :
         pc[t] = "s_body" /\ lock = t /\ out[Len(out)].uid = ruid[t]

\* Thread 1 has written the identifier of its query and not yet the rest,
\* and thread 2 waits for the lock to write its own.
C15_Witness ==
  /\ pc[1] = "s_body" /\ pc[2] = "s_lock"
  /\ out # <<>> /\ out[Len(out)].part = "id" /\ out[Len(out)].uid = ruid[1]

\* ----------------------------------------------------------------- C16
\* C16: store_data and retrieve_data end without an exception: when
\* get_data_response found no response they report it as a value, when it
\* found one store_data returns its status and retrieve_data the response.
C16_NoResponseIsAnOrdinaryResult ==
  \A t \in Threads :
    /\ op[t] \in {"store", "retrieve"} => ret[t].kind # "raise"
    /\ (op[t] = "store" /\ ret[t].kind = "value") =>
         ret[t].item.cls \in {"int", "NoneType"}
    /\ (op[t] = "retrieve" /\ ret[t].kind = "value") =>
         ret[t].item.cls \in {"MrdRetrieveDataResponse", "NoneType"}

\* ----------------------------------------------------------------- C17
\* C17: when the dataset file cannot be written, next() still returns the
\* message whose handler tried to save it (the config text, the None of a
\* Close), and is_exhausted is still set by a Close.
C17_SaveFailureDoesNotAbort ==
  [][ \A t \in Threads :
        (pc[t] = "n_handle" /\ pc'[t] # pc[t] /\ savedata /\ dsetFails) =>
          /\ (cur[t].id = 2 /\ stream # <<>>) =>
               /\ ret'[t].kind = "value"
               /\ ret'[t].item.cls = "str"
               /\ ret'[t].item.text = Head(stream).f.text
          /\ cur[t].id = 4 =>
               /\ ret'[t].kind = "value" /\ ret'[t].item.cls = "NoneType"
               /\ is_exhausted'
    ]_vars

\* C18: send_config_file writes nothing to the stream when the UTF-8
\* encoding of the file name is longer than 1023 bytes, and a shorter name
\* is decoded by the receiver as the name that was sent.
C18_LongFileNameRejected ==
  (sentMsgs # <<>> /\ sentMsgs[1].msg.cls = "ConfigFile") =>
    LET name == sentMsgs[1].msg.text
        long == Len(encode(name)) > SIZEOF_MRD_MESSAGE_CONFIGURATION_FILE - 1
    IN  /\ long => written = <<>>
        /\ (~long /\ results # <<>> /\ results[1].id = 1
              /\ results[1].res.kind = "value") =>
             results[1].res.item.text = name

\* The message kinds of C19, and the step that decodes the first frame
\* after all its bytes have arrived.
RoundTripKinds ==
  { "ConfigText", "Metadata", "Text", "MrdStoreDataQuery",
    "MrdStoreDataResponse", "MrdRetrieveDataQuery", "MrdRetrieveDataResponse" }

WholeFrameRead ==
  /\ phase = "recv" /\ results = <<>> /\ results' # <<>>
  /\ sentMsgs[1].msg.cls \in RoundTripKinds
  /\ Len(inbound) >= sentMsgs[1].len

ExactlyConsumed ==
  inbound' = SubSeq(inbound, sentMsgs[1].len + 1, Len(inbound))

NoNul(t) == \A i \in 1..Len(t) : t[i] # 0

\* t up to its first NUL character.
RECURSIVE UpToNul(_)
UpToNul(t) ==
  IF t = <<>> \/ Head(t) = 0 THEN <<>> ELSE <<Head(t)>> \o UpToNul(Tail(t))

\* C19 as stated: for the seven kinds, decoding the bytes the send
\* operation wrote yields the message that was sent and consumes exactly
\* the bytes of the frame.
C19_RoundTrip ==
  [][ WholeFrameRead =>
        /\ results'[1].res = [kind |-> "value", item |-> sentMsgs[1].msg, exc |-> ""]
        /\ ExactlyConsumed
    ]_vars

\* C19, amended: decoding yields the message that was sent with its text or
\* name cut at the first NUL character, hence the very message when the
\* text or name holds no NUL character; data, status and uid are the ones
\* sent; exactly the bytes of the frame are consumed, and a Close frame
\* written behind it is the next frame decoded.
C19_RoundTripUpToNul ==
  [][ /\ WholeFrameRead =>
           /\ results'[1].res.kind = "value"
           /\ results'[1].res.item =
                [sentMsgs[1].msg EXCEPT !.text = UpToNul(sentMsgs[1].msg.text)]
           /\ NoNul(sentMsgs[1].msg.text) =>
                results'[1].res.item = sentMsgs[1].msg
           /\ ExactlyConsumed
      /\ ( /\ phase = "recv" /\ Len(results) = 1 /\ Len(results') = 2
           /\ sentMsgs[1].msg.cls \in RoundTripKinds
           /\ Len(sentMsgs) = 2 /\ Len(inbound) = sentMsgs[2].len ) =>
           /\ results'[2].id = 4
           /\ results'[2].res.kind = "value"
           /\ inbound' = <<>>
    ]_vars

C19_Witness ==
  /\ phase = "recv" /\ Len(results) = 2
  /\ sentMsgs[1].msg = Msg("MrdRetrieveDataResponse", <<233, 97>>, <<255>>, 258, 258)
  /\ results[1].res.kind = "value"
  /\ results[1].res.item = sentMsgs[1].msg
  /\ results[2].id = 4

\* C20: when the stream ends in the middle of a frame (some of the frame's
\* bytes have arrived, not all), decoding the frame raises an error and
\* returns no message.
C20_TruncatedFrameRaises ==
  [][ LET n == Len(results) IN
      ( /\ phase = "recv" /\ Len(results') = n + 1 /\ n < Len(sentMsgs)
        /\ 0 < Len(inbound) /\ Len(inbound) < sentMsgs[n + 1].len ) =>
        results'[n + 1].res.kind = "raise"
    ]_vars

\* ----------------------------------------------------------------- C21
\* Thread t reads from the socket in this step and the connection has been
\* reset: the read of an identifier, or the payload read of a handler.
ReadMeetsReset(t) ==
  /\ peer = "reset" /\ stream = <<>>
  /\ pc'[t] # pc[t]
  /\ \/ pc[t] = "n_read"
     \/ pc[t] = "g_read" /\ cnt[t] < 10
     \/ /\ pc[t] \in {"n_handle", "g_handle"}
        /\ cur[t].id \in {1, 2, 5, 1008, 1031, 1033}

\* C21: a connection reset met by any stream read of next() or
\* get_data_response(), at a frame boundary or inside a payload, ends the
\* call like a clean end of stream: the connection is exhausted, the call
\* returns no message and raises nothing.
C21_ResetTreatedAsEof ==
  [][ \A t \in Threads :
        ReadMeetsReset(t) =>
          /\ is_exhausted'
          /\ ret'[t].kind = "value"
          /\ ret'[t].item.cls = "NoneType"
    ]_vars

\* ----------------------------------------------------------------- C22
\* The arrival numbers of the frames whose messages are in the queue q.
QueuedFrames(q) == {q[i].n : i \in DOMAIN q}

\* Thread t runs the handler of a frame that is wholly on the stream, so
\* the handler decodes it: a Close frame, or a frame of a registered
\* identifier whose payload has arrived.
DecodesFrame(t) ==
  /\ pc[t] \in {"n_handle", "g_handle"} /\ pc'[t] # pc[t]
  /\ cur[t].id \in {1, 2, 4, 5, 1008, 1031, 1033}
  /\ cur[t].id = 4 \/ stream # <<>>

\* Thread t is handed the message of frame n in this step.
HandedTo(t, n) ==
  pc'[t] # pc[t] /\ ret'[t].kind = "value" /\ ret'[t].item.n = n

\* C22: every frame decoded from the stream is handed to exactly one caller
\* or is in the queue exactly once: the queue never holds a message twice,
\* an entry enters the queue only in the step that decodes its frame, an
\* entry that leaves the queue is handed to the caller that removed it, and
\* a decoded message is either queued or handed to the caller, never
\* both and never neither.
C22_DecodedOnceQueuedOrDelivered ==
  [][ /\ \A i \in DOMAIN queue' : \A j \in DOMAIN queue' :
           i # j => queue'[i].n # queue'[j].n
      /\ \A n \in QueuedFrames(queue') \ QueuedFrames(queue) :
           \E t \in Threads : DecodesFrame(t) /\ cur[t].n = n
      /\ \A n \in QueuedFrames(queue) \ QueuedFrames(queue') :
           \E t \in Threads : pc[t] \in {"n_pop", "g_pop"} /\ HandedTo(t, n)
      /\ \A t \in Threads :
           DecodesFrame(t) =>
             (cur[t].n \in QueuedFrames(queue')) # HandedTo(t, cur[t].n)
    ]_vars

\* ----------------------------------------------------------------- C23
\* C23: with saving enabled and a dataset file that can be written, no
\* dataset file is left open once a Close frame has been processed, and
\* none once shutdown_close has been called.
C23_HandleClosedAtCloseAndShutdown ==
  [][ ~dsetFails =>
        /\ \A t \in Threads :
             ( /\ pc[t] = "n_handle" /\ pc'[t] # pc[t]
               /\ cur[t].id = 4 /\ savedata ) => handles' = 0
        /\ (active # {} /\ active' = {}) => handles' = 0
    ]_vars

\* ----------------------------------------------------------------- C29
\* C29: at most one dataset file is open at a time, none is open while
\* saving is disabled, and a file is opened only in a step that starts
\* with none open and ends with saving enabled.
C29_AtMostOneHandle ==
  [][ /\ handles' <= 1
      /\ ~savedata' => handles' = 0
      /\ handles' > handles => (handles = 0 /\ savedata')
    ]_vars

\* Saving was enabled by a ConfigFile "savedataonly", the file was closed
\* by a Close frame, and a message that arrived after it has opened a file
\* again.
C29_Witness ==
  /\ wire # <<>> /\ wire[1].id = 1 /\ wire[1].text = "savedataonly"
  /\ closedAt = 2 /\ ~dsetFails
  /\ savedata /\ handles = 1 /\ dset = "open"
  /\ ret[1].kind = "value" /\ ret[1].item.n = 3

\* C24: a send method that returns normally has put every byte of its
\* frame on the stream; when the transport takes only part of a buffer or
\* fails, the method raises.
C24_SendAllOrRaise ==
  [][ Len(sentMsgs') = Len(sentMsgs) + 1 =>
        \/ sentMsgs'[Len(sentMsgs')].raised
        \/ Len(written') = Len(written) + sentMsgs'[Len(sentMsgs')].len ]_vars

\* A step of thread t that may set is_exhausted: an identifier read that
\* gets no byte because the peer closed or reset the connection, or
\* read_close.
ExhaustingStep(t) ==
  /\ pc'[t] # pc[t]
  /\ \/ pc[t] \in {"n_read", "g_read"} /\ stream = <<>>
                                        /\ peer \in {"closed", "reset"}
     \/ pc[t] \in {"n_handle", "g_handle"} /\ cur[t].id = 4

\* C25: is_exhausted starts false, becomes true only in an identifier read
\* of zero bytes, an identifier read that meets a reset, or read_close,
\* and once true stays true.
C25_ExhaustedTerminal ==
  /\ ~is_exhausted
  /\ [][ /\ is_exhausted => is_exhausted'
         /\ (~is_exhausted /\ is_exhausted') => \E t \in Threads : ExhaustingStep(t)
     ]_vars

\* Close was the first frame and set the flag; the frame behind it has
\* been read since, and the flag is still set.
C25_Witness ==
  /\ is_exhausted /\ closedAt = 1
  /\ pc[1] = "n_handle" /\ cur[1].n = 2 /\ cur[1].id = 5

\* The places of q that hold a message that is not a data response.
QueuedMessages(q) ==
  { i \in DOMAIN q :
      q[i].cls \notin {"MrdStoreDataResponse", "MrdRetrieveDataResponse",
                       "NoneType"} }

\* C26: when the queue holds a message that is not a MrdStoreDataResponse
\* or MrdRetrieveDataResponse, next() called by the only thread does not
\* turn to the stream: it returns the oldest such message, reads nothing,
\* and leaves the other entries of the queue in their order, whether
\* is_exhausted is set or not.
C26_NextReturnsOldestQueuedMessage ==
  [][ \A t \in Threads :
        /\ (pc[t] = "n_scan" /\ pc'[t] = "n_lock") => QueuedMessages(queue) = {}
        /\ (pc[t] = "n_pop" /\ pc'[t] # "n_pop" /\ QueuedMessages(queue) # {}) =>
             \E i \in QueuedMessages(queue) :
               /\ \A j \in QueuedMessages(queue) : i <= j
               /\ ret'[t] = [kind |-> "value", item |-> queue[i], exc |-> ""]
               /\ queue' = Without(queue, i)
               /\ nread'[t] = 0 /\ stream' = stream
    ]_vars

\* C27: every entry of the queue is a decoded message, never None, also
\* after get_data_response decoded a Close frame while it searched.
C27_QueueHoldsNoNone ==
  \A i \in DOMAIN queue : queue[i].cls # "NoneType"

\* The places of a call at which its thread is inside "with self.lock":
\* the read loop of next() and of get_data_response(), and a send method.
LockSections == {"n_read", "n_handle", "g_read", "g_handle", "s_id", "s_body"}

\* C28: the lock is held only by a thread that is inside a send method or
\* inside the read loop of next() or get_data_response(); a call that has
\* left them, by a return or by an exception, holds it no longer.
C28_LockHeldOnlyInsideSections ==
  /\ lock \in Threads \cup {NoThread}
  /\ \A t \in Threads : lock = t => pc[t] \in LockSections
  /\ (\A t \in Threads : pc[t] \notin LockSections) => lock = NoThread

\* The call of thread 1 ended in the exception raised for an identifier
\* without a handler, and thread 2 has taken the lock since and reads.
C28_Witness ==
  /\ pc[1] = "idle" /\ ret[1].kind = "raise" /\ ret[1].exc = "StopIteration"
  /\ lock = 2 /\ pc[2] = "n_handle" /\ cur[2].n = 2 /\ wire[1].id = 1001

====
